---- MODULE Spec2Model ----
(***************************************************************************)
(* A model of refinery/units/formats/__init__.py: PathPattern,             *)
(* UnpackResult, PathExtractorUnit.process and                             *)
(* MemoryExtractorUnit._read_from_memory.                                  *)
(*                                                                         *)
(* Strings are tuples of one-character strings, byte strings are tuples    *)
(* of integers in 0..255.  Path handling is that of a POSIX build          *)
(* (os.path.normcase is the identity, os.path.join is posixpath.join).     *)
(* The character "[" is not part of any alphabet used here, so fnmatch's   *)
(* bracket sets never arise.                                               *)
(***************************************************************************)
EXTENDS Integers, Sequences, FiniteSets, TLC

VARIABLES
    \* ---- PathExtractorUnit: configuration (self.args) and the input
    specs,      \* the path specifications __init__ was called with
    regex,      \* the regex switch __init__ was called with
    patterns,   \* self.args.patterns: a tuple of PathPattern records
    list,       \* self.args.list
    join,       \* self.args.join
    meta,       \* the 'path' metadata of the input chunk, or NoPath
    items,      \* what unpack(data) yields: a tuple of [path, data]
    unpackErr,  \* whether unpack raises after its last item
    \* ---- PathExtractorUnit.process: the generator's frame
    pc,         \* "idle", "start", "unpack", "emit", "done", "raised"
    root,       \* local root
    k,          \* position of the first loop in the unpack sequence
    objs,       \* the data field of each UnpackResult object unpack made
    results,    \* local results: indices of the collected objects
    pi,         \* position of the loop over self.args.patterns
    ri,         \* position of the loop over results
    paths,      \* local paths: the defaultdict(set) ledger
    out,        \* what the generator has yielded so far
    warns,      \* the paths log_warn was called with
    calls,      \* history: invocations of each object's deferred producer
    rets,       \* history: the values get_data returned, per object
    prev,       \* history: outcome of the previous run on this input
    \* ---- MemoryExtractorUnit
    mem,        \* arguments, resolver answer, buffer and position
    memOut,     \* outcome of _read_from_memory
    \* ---- PathPattern on its own
    pat         \* one specification, one candidate path, and the answers

procVars == <<specs, regex, patterns, list, join, meta, items, unpackErr, pc, root, k, objs,
              results, pi, ri, paths, out, warns, calls, rets, prev>>
memVars == <<mem, memOut>>
patVars == <<pat>>
vars == <<procVars, memVars, patVars>>

\* An optional value, Python's None or a value: the empty tuple or <<v>>
None == <<>>
Some(v) == <<v>>

(***************************************************************************)
(* Sequences                                                               *)
(***************************************************************************)
Range(s) == {s[n] : n \in DOMAIN s}

SeqsUpTo(S, n) == UNION {[1..m -> S] : m \in 0..n}

Min(a, b) == IF a <= b THEN a ELSE b

(***************************************************************************)
(* pathspec: backward and forward slashes both become forward slashes.     *)
(***************************************************************************)
pathspec(expression) ==
    [n \in DOMAIN expression |->
        IF expression[n] = "\\" THEN "/" ELSE expression[n]]

(***************************************************************************)
(* Regular expressions, as far as fnmatch.translate produces them: a       *)
(* compiled pattern is a tuple of tokens, "dotstar" (.* under the s flag), *)
(* "dot" (. under the s flag) and "chr" (one escaped literal character).   *)
(* re.compile of a string over the characters a / . and the star adds     *)
(* "chrstar", a literal under a star.  No path here holds a newline, so    *)
(* the dot without the s flag is "dot" as well.                            *)
(***************************************************************************)
translate(pp) ==
    [n \in DOMAIN pp |->
        IF pp[n] = "*" THEN [t |-> "dotstar"]
        ELSE IF pp[n] = "?" THEN [t |-> "dot"]
        ELSE [t |-> "chr", c |-> pp[n]]]

RECURSIVE MatchFrom(_, _, _, _)
MatchFrom(re, j, s, n) ==
    IF j > Len(re) THEN n > Len(s)
    ELSE IF re[j].t = "dotstar"
        THEN MatchFrom(re, j + 1, s, n)
             \/ (n <= Len(s) /\ MatchFrom(re, j, s, n + 1))
    ELSE IF re[j].t = "dot"
        THEN n <= Len(s) /\ MatchFrom(re, j + 1, s, n + 1)
    ELSE IF re[j].t = "chrstar"
        THEN MatchFrom(re, j + 1, s, n)
             \/ (n <= Len(s) /\ s[n] = re[j].c /\ MatchFrom(re, j, s, n + 1))
    ELSE n <= Len(s) /\ s[n] = re[j].c /\ MatchFrom(re, j + 1, s, n + 1)

\* re.Pattern.fullmatch(path): the whole of path matches
fullmatch(re, path) == MatchFrom(re, 1, path, 1)

\* the parse of re.compile: a * with nothing before it ("nothing to
\* repeat") or after another * ("multiple repeat") is an "error" token
RECURSIVE ReParse(_, _)
ReParse(pp, n) ==
    IF n > Len(pp) THEN <<>>
    ELSE IF pp[n] = "*" THEN <<[t |-> "error"]>>
    ELSE IF n < Len(pp) /\ pp[n + 1] = "*"
        THEN IF n + 1 < Len(pp) /\ pp[n + 2] = "*"
             THEN <<[t |-> "error"]>>
             ELSE <<IF pp[n] = "." THEN [t |-> "dotstar"]
                    ELSE [t |-> "chrstar", c |-> pp[n]]>>
                  \o ReParse(pp, n + 2)
    ELSE <<IF pp[n] = "." THEN [t |-> "dot"] ELSE [t |-> "chr", c |-> pp[n]]>>
         \o ReParse(pp, n + 1)

\* re.compile(pp): None when it raises re.error, else the compiled pattern
re_compile(pp) ==
    IF \E n \in DOMAIN ReParse(pp, 1) : ReParse(pp, 1)[n].t = "error"
    THEN None
    ELSE Some(ReParse(pp, 1))

\* fnmatch.fnmatch(name, pat) on POSIX: translate, compile, match to \Z
fnmatch(name, pattern) == fullmatch(translate(pattern), name)

(***************************************************************************)
(* PathPattern                                                             *)
(***************************************************************************)
IsStopChar(c) == c \in {"/", "*", "?"}

\* [pp[:k] for k, c in enumerate(pp) if c in '/*?'], in order
RECURSIVE StopsFrom(_, _)
StopsFrom(pp, n) ==
    IF n > Len(pp) THEN <<>>
    ELSE IF IsStopChar(pp[n])
        THEN <<SubSeq(pp, 1, n - 1)>> \o StopsFrom(pp, n + 1)
    ELSE StopsFrom(pp, n + 1)

\* PathPattern(pp) for a specification string, regex=False
PathPattern(pp) ==
    [stops |-> StopsFrom(pp, 1), pattern |-> translate(pp)]

\* PathPattern(pp) for a compiled re.Pattern
PathPatternCompiled(pp) == [stops |-> <<>>, pattern |-> pp]

\* PathPattern(pp, regex=True) for a specification string that compiles:
\* the branch that assigns self.stops is skipped, the attribute is not set
PathPatternRegex(pp) == [pattern |-> re_compile(pp)[1]]

\* 'if not self.stops' on an object without the attribute: AttributeError
reach_raises(self) == "stops" \notin DOMAIN self

reach(self, path) ==
    IF self.stops = <<>> THEN TRUE
    ELSE \E n \in DOMAIN self.stops : fnmatch(path, self.stops[n])

check(self, path) == fullmatch(self.pattern, path)

(***************************************************************************)
(* UnpackResult.  The data field is either a byte string,                  *)
(*   [kind |-> "bytes", val |-> b],                                        *)
(* or a callable, [kind |-> "callable", ret |-> b, ok |-> BOOLEAN]: a      *)
(* producer that returns b when invoked, or raises when ok is FALSE.       *)
(***************************************************************************)
Bytes(b) == [kind |-> "bytes", val |-> b]
Deferred(b) == [kind |-> "callable", ret |-> b, ok |-> TRUE]
Failing == [kind |-> "callable", ret |-> <<>>, ok |-> FALSE]

callable(d) == d.kind = "callable"

\* A variant of get_data that forgets to store what the producer returned.
get_data_uncached(d) ==
    IF callable(d)
    THEN [invoked |-> 1, raised |-> ~d.ok, value |-> d.ret, data |-> d]
    ELSE [invoked |-> 0, raised |-> FALSE, value |-> d.val, data |-> d]

\* get_data on an object whose data field is d: whether the producer was
\* invoked, whether the call raised, the value returned, the field afterwards
get_data(d) ==
    IF callable(d)
    THEN IF d.ok
         THEN [invoked |-> 1, raised |-> FALSE, value |-> d.ret,
               data |-> Bytes(d.ret)]
         ELSE [invoked |-> 1, raised |-> TRUE, value |-> <<>>, data |-> d]
    ELSE [invoked |-> 0, raised |-> FALSE, value |-> d.val, data |-> d]

(***************************************************************************)
(* zlib.adler32 of a byte string                                           *)
(***************************************************************************)
AdlerBase == 65521

RECURSIVE AdlerFrom(_, _, _, _)
AdlerFrom(b, n, s1, s2) ==
    IF n > Len(b) THEN s2 * 65536 + s1
    ELSE LET t1 == (s1 + b[n]) % AdlerBase
         IN  AdlerFrom(b, n + 1, t1, (s2 + t1) % AdlerBase)

adler32(b) == AdlerFrom(b, 1, 1, 0)

(***************************************************************************)
(* os.path.join(root, path) of posixpath, and str.encode for the           *)
(* characters used here (ASCII, so one byte per character).                *)
(***************************************************************************)
os_path_join(a, p) ==
    IF p # <<>> /\ p[1] = "/" THEN p
    ELSE IF a = <<>> \/ a[Len(a)] = "/" THEN a \o p
    ELSE a \o <<"/">> \o p

Ord(c) ==
    CASE c = "*" -> 42 [] c = "." -> 46 [] c = "/" -> 47 [] c = "?" -> 63
      [] c = "\\" -> 92 [] c = "a" -> 97 [] c = "b" -> 98 [] c = "r" -> 114
      [] c = "t" -> 116 [] c = "x" -> 120

encode(path) == [n \in DOMAIN path |-> Ord(path[n])]

(***************************************************************************)
(* PathExtractorUnit                                                       *)
(***************************************************************************)
MaxItems == 2
MaxPatterns == 2

XTxt == <<"x", ".", "t", "x", "t">>
AB == <<"a", "/", "b">>
PathPool == {XTxt, AB}

\* <<0,2,0>> and <<1,0,1>> are different byte strings with one adler32
ItemPool ==
    {[path |-> XTxt, data |-> Bytes(<<0, 2, 0>>)],
     [path |-> XTxt, data |-> Bytes(<<1, 0, 1>>)],
     [path |-> XTxt, data |-> Bytes(<<65>>)],
     [path |-> XTxt, data |-> Deferred(<<65>>)],
     [path |-> AB, data |-> Bytes(<<65>>)],
     [path |-> AB, data |-> Failing]}
\* the pool of the two-run specification
ItemPool2 ==
    {[path |-> XTxt, data |-> Bytes(<<65>>)],
     [path |-> AB, data |-> Deferred(<<65>>)],
     [path |-> AB, data |-> Failing]}

StarTxt == <<"*", ".", "t", "x", "t">>
Star == <<"*">>
SpecPool == {StarTxt, Star, <<"a", "\\", "?">>}
\* specifications that read differently as wildcards and as regular
\* expressions, for the runs with the regex switch
DotStar == <<".", "*">>
SwitchPool == {DotStar, Star, AB}
MetaPool == {None, Some(<<"r">>)}

EmptyLedger == [q \in {} |-> {}]

\* 'paths = collections.defaultdict(set)' rebinds the local name whatever
\* was there, and a variant that goes on with the ledger it finds
ledger_kept(old) == old

defaultdict_set(old) == EmptyLedger

\* __init__: every path specification becomes PathPattern(p), the type
\* of the argument having normalized it with pathspec
MakePatterns(ps) ==
    [n \in DOMAIN ps |-> PathPattern(pathspec(ps[n]))]

_check_reachable(path) == \E n \in DOMAIN patterns : reach(patterns[n], path)

\* any(p.check(path) ...), and a variant that wants every path
_check_path_all(path) == TRUE

_check_path(path) == \E n \in DOMAIN patterns : check(patterns[n], path)

\* One get_data call on object r, given the objects and the histories
Call(o, c, rt, r) ==
    LET g == get_data(o[r])
    IN  [objs |-> [o EXCEPT ![r] = g.data],
         calls |-> [c EXCEPT ![r] = @ + g.invoked],
         rets |-> IF g.raised THEN rt ELSE [rt EXCEPT ![r] = Append(@, g.value)],
         raised |-> g.raised,
         value |-> g.value]

\* results.append(result), and a variant that inserts at the front
CollectFirst(rs, r) == <<r>> \o rs

Collect(rs, r) == Append(rs, r)

\* the test that ends in 'continue', and variants of it
IsDuplicateNever(ledger, path, csum) == FALSE

IsDuplicateInverted(ledger, path, csum) ==
    ~(path \in DOMAIN ledger /\ csum \in ledger[path])

IsDuplicate(ledger, path, csum) ==
    path \in DOMAIN ledger /\ csum \in ledger[path]

\* paths[path].add(csum) on the defaultdict, a variant that drops it and one
\* that forgets the checksums recorded before
LedgerForget(ledger, path, csum) == ledger

LedgerReplace(ledger, path, csum) ==
    [q \in DOMAIN ledger \cup {path} |->
        IF q = path THEN {csum} ELSE ledger[q]]

LedgerAdd(ledger, path, csum) ==
    [q \in DOMAIN ledger \cup {path} |->
        IF q = path
        THEN (IF q \in DOMAIN ledger THEN ledger[q] ELSE {}) \cup {csum}
        ELSE ledger[q]]

\* the path after 'if self.args.join: path = os.path.join(root, path)'
Label(path) == IF join THEN os_path_join(root[1], path) ELSE path

\* self.labelled(data, path=path); pat and item are history: the pattern
\* and the unpack position the emission comes from
labelled(data, path, p, r) ==
    [kind |-> "chunk", data |-> data, path |-> path, pat |-> p, item |-> r]

listed(path, p, r) ==
    [kind |-> "path", data |-> encode(path), path |-> path, pat |-> p, item |-> r]

ProcFresh ==
    /\ pc = "start"
    /\ root = None
    /\ k = 1
    /\ objs = [n \in DOMAIN items |-> items[n].data]
    /\ results = <<>>
    /\ pi = 1
    /\ ri = 1
    /\ paths = EmptyLedger
    /\ out = <<>>
    /\ warns = <<>>
    /\ calls = [n \in DOMAIN items |-> 0]
    /\ rets = [n \in DOMAIN items |-> <<>>]

\* the unit after __init__, called with specifications from specpool and the
\* regex switch from flags, and its input; meta is read only when join is set
ProcInit(pool, specpool, flags) ==
    /\ specs \in SeqsUpTo(specpool, MaxPatterns)
    /\ regex \in flags
    /\ patterns = MakePatterns(specs)
    /\ list \in BOOLEAN
    /\ join \in BOOLEAN
    /\ meta \in (IF join THEN MetaPool ELSE {None})
    /\ items \in SeqsUpTo(pool, MaxItems)
    /\ unpackErr \in BOOLEAN
    /\ prev = None
    /\ ProcFresh

ProcIdle ==
    /\ specs = <<>>
    /\ regex = FALSE
    /\ patterns = <<>>
    /\ list = FALSE
    /\ join = FALSE
    /\ meta = None
    /\ items = <<>>
    /\ unpackErr = FALSE
    /\ prev = None
    /\ pc = "idle"
    /\ root = None
    /\ k = 1
    /\ objs = <<>>
    /\ results = <<>>
    /\ pi = 1
    /\ ri = 1
    /\ paths = EmptyLedger
    /\ out = <<>>
    /\ warns = <<>>
    /\ calls = <<>>
    /\ rets = <<>>

config == <<specs, regex, patterns, list, join, meta, items, unpackErr>>

\* process, up to the first loop: the join root, results = [], paths = {}
Begin ==
    /\ pc = "start"
    /\ root' = IF join THEN Some(IF meta = None THEN <<>> ELSE meta[1]) ELSE None
    /\ results' = <<>>
    /\ paths' = defaultdict_set(paths)
    /\ pc' = "unpack"
    /\ UNCHANGED <<config, k, objs, pi, ri, out, warns, calls, rets, prev>>

\* first loop: an item no pattern fully matches is passed over
UnpackSkip ==
    /\ pc = "unpack"
    /\ k <= Len(items)
    /\ ~_check_path(items[k].path)
    /\ k' = k + 1
    /\ UNCHANGED <<config, pc, root, objs, results, pi, ri, paths, out,
                   warns, calls, rets, prev>>

\* a variant of the first loop that collects without materializing
UnpackKeepLazy ==
    /\ pc = "unpack"
    /\ k <= Len(items)
    /\ _check_path(items[k].path)
    /\ results' = Collect(results, k)
    /\ k' = k + 1
    /\ UNCHANGED <<config, pc, root, objs, calls, rets, pi, ri, paths, out,
                   warns, prev>>

\* first loop: a wanted item is materialized (unless listing) and collected
UnpackKeep ==
    /\ pc = "unpack"
    /\ k <= Len(items)
    /\ _check_path(items[k].path)
    /\ IF list
       THEN UNCHANGED <<objs, calls, rets>>
       ELSE LET c == Call(objs, calls, rets, k)
            IN  /\ ~c.raised
                /\ objs' = c.objs
                /\ calls' = c.calls
                /\ rets' = c.rets
    /\ results' = Collect(results, k)
    /\ k' = k + 1
    /\ UNCHANGED <<config, pc, root, pi, ri, paths, out, warns, prev>>

\* first loop: the producer of a wanted item raises inside get_data
UnpackFail ==
    /\ pc = "unpack"
    /\ k <= Len(items)
    /\ _check_path(items[k].path)
    /\ ~list
    /\ LET c == Call(objs, calls, rets, k)
       IN  /\ c.raised
           /\ objs' = c.objs
           /\ calls' = c.calls
           /\ rets' = c.rets
    /\ pc' = "raised"
    /\ UNCHANGED <<config, root, k, results, pi, ri, paths, out, warns, prev>>

\* unpack is exhausted: on to the loop over the patterns
UnpackEnd ==
    /\ pc = "unpack"
    /\ k > Len(items)
    /\ ~unpackErr
    /\ pc' = "emit"
    /\ pi' = 1
    /\ ri' = 1
    /\ UNCHANGED <<config, root, k, objs, results, paths, out, warns,
                   calls, rets, prev>>

\* unpack raises instead of ending
UnpackRaise ==
    /\ pc = "unpack"
    /\ k > Len(items)
    /\ unpackErr
    /\ pc' = "raised"
    /\ UNCHANGED <<config, root, k, objs, results, pi, ri, paths, out,
                   warns, calls, rets, prev>>

AtResult ==
    /\ pc = "emit"
    /\ pi <= Len(patterns)
    /\ ri <= Len(results)

\* the inner loop is exhausted: next pattern
EmitNextPattern ==
    /\ pc = "emit"
    /\ pi <= Len(patterns)
    /\ ri > Len(results)
    /\ pi' = pi + 1
    /\ ri' = 1
    /\ UNCHANGED <<config, pc, root, k, objs, results, paths, out, warns,
                   calls, rets, prev>>

\* the outer loop is exhausted: the generator returns
EmitFinish ==
    /\ pc = "emit"
    /\ pi > Len(patterns)
    /\ pc' = "done"
    /\ UNCHANGED <<config, root, k, objs, results, pi, ri, paths, out, warns,
                   calls, rets, prev>>

\* 'if not p.check(path): continue'
EmitNoMatch ==
    /\ AtResult
    /\ ~check(patterns[pi], items[results[ri]].path)
    /\ ri' = ri + 1
    /\ UNCHANGED <<config, pc, root, k, objs, results, pi, paths, out, warns,
                   calls, rets, prev>>

\* listing: the encoded path is yielded, nothing is read or recorded
EmitList ==
    /\ AtResult
    /\ check(patterns[pi], items[results[ri]].path)
    /\ list
    /\ out' = Append(out, listed(Label(items[results[ri]].path), pi, results[ri]))
    /\ ri' = ri + 1
    /\ UNCHANGED <<config, pc, root, k, objs, results, pi, paths, warns,
                   calls, rets, prev>>

\* path and checksum are in the ledger: 'continue'
EmitDuplicate ==
    /\ AtResult
    /\ check(patterns[pi], items[results[ri]].path)
    /\ ~list
    /\ LET r == results[ri]
           c == Call(objs, calls, rets, r)
       IN  /\ ~c.raised
           /\ IsDuplicate(paths, items[r].path, adler32(c.value))
           /\ objs' = c.objs
           /\ calls' = c.calls
           /\ rets' = c.rets
    /\ ri' = ri + 1
    /\ UNCHANGED <<config, pc, root, k, results, pi, paths, out, warns, prev>>

\* the checksum is new for the path: warn if the path is known, record the
\* checksum, yield the labelled payload
EmitPayload ==
    /\ AtResult
    /\ check(patterns[pi], items[results[ri]].path)
    /\ ~list
    /\ LET r == results[ri]
           path == items[r].path
           c == Call(objs, calls, rets, r)
           csum == adler32(c.value)
           d == Call(c.objs, c.calls, c.rets, r)
       IN  /\ ~c.raised
           /\ ~IsDuplicate(paths, path, csum)
           /\ ~d.raised
           /\ warns' = IF path \in DOMAIN paths THEN Append(warns, path) ELSE warns
           /\ paths' = LedgerAdd(paths, path, csum)
           /\ out' = Append(out, labelled(d.value, Label(path), pi, r))
           /\ objs' = d.objs
           /\ calls' = d.calls
           /\ rets' = d.rets
    /\ ri' = ri + 1
    /\ UNCHANGED <<config, pc, root, k, results, pi, prev>>

\* process is called once more on the same input, by the same unit or by
\* one that differs in the list switch only; unpack makes fresh objects,
\* the locals of the finished call stay as they are until Begin rebinds them
Again ==
    /\ pc \in {"done", "raised"}
    /\ prev = None
    /\ prev' = Some([list |-> list, pc |-> pc, out |-> out, warns |-> warns])
    /\ list' \in BOOLEAN
    /\ pc' = "start"
    /\ root' = None
    /\ k' = 1
    /\ objs' = [n \in DOMAIN items |-> items[n].data]
    /\ pi' = 1
    /\ ri' = 1
    /\ out' = <<>>
    /\ warns' = <<>>
    /\ calls' = [n \in DOMAIN items |-> 0]
    /\ rets' = [n \in DOMAIN items |-> <<>>]
    /\ UNCHANGED <<specs, regex, patterns, join, meta, items, unpackErr,
                   results, paths>>

(***************************************************************************)
(* MemoryExtractorUnit.  Offsets are Python's, counted from 0.             *)
(***************************************************************************)
MaxBuf == 4
MaxCount == 2
ByteVals == {0, 65}

\* the buffers of the documented examples: AB\0CD, A\0B\0\0\0, ABCDEF
ExAscii == <<65, 66, 0, 67, 68>>
ExUtf16 == <<65, 0, 66, 0, 0, 0>>
ExCount == <<65, 66, 67, 68, 69, 70>>
BufferPool == SeqsUpTo(ByteVals, MaxBuf) \cup {ExAscii, ExUtf16, ExCount}

\* data.find(B'\0', start) for start >= 0, and a variant that ignores start
RECURSIVE FindZero(_, _)
FindZero(data, e) ==
    IF e >= Len(data) THEN -1
    ELSE IF data[e + 1] = 0 THEN e
    ELSE FindZero(data, e + 1)

find_whole(data, start) == FindZero(data, 0)

find(data, start) == FindZero(data, start)

\* the utf16 loop: for end in range(start, len(data), 2), leaving by break,
\* by exhaustion (the else clause) or by the IndexError of data[end + 1]
RECURSIVE Utf16Loop(_, _, _)
Utf16Loop(data, end, step) ==
    IF end >= Len(data) THEN [status |-> "EndOfStringNotFound", end |-> -1]
    ELSE IF data[end + 1] # 0 THEN Utf16Loop(data, end + step, step)
    ELSE IF end + 1 >= Len(data) THEN [status |-> "IndexError", end |-> -1]
    ELSE IF data[end + 2] = 0 THEN [status |-> "ok", end |-> end]
    ELSE Utf16Loop(data, end + step, step)

\* a variant that steps through every offset
utf16_scan_unaligned(data, start) == Utf16Loop(data, start, 1)

utf16_scan(data, start) == Utf16Loop(data, start, 2)

\* data[start:end] for start >= 0 and end None or Some(e), e >= 0, and a
\* variant that reads to the end of the buffer whatever end is
SliceOpen(data, start, end) ==
    IF start >= Len(data) THEN <<>> ELSE SubSeq(data, start + 1, Len(data))

Slice(data, start, end) ==
    LET hi == IF end = None THEN Len(data) ELSE Min(end[1], Len(data))
    IN  IF start >= hi THEN <<>> ELSE SubSeq(data, start + 1, hi)

\* the lines after the terminator search: the count bound and the slice,
\* and a variant whose bound is count instead of start + count
BoundedFromZero(m, end) ==
    LET lbound == m.count
        e == IF m.count # 0
             THEN (IF end = None THEN Some(lbound) ELSE Some(Min(end[1], lbound)))
             ELSE end
    IN  [status |-> "ok", value |-> Slice(m.data, m.start, e)]

Bounded(m, end) ==
    LET lbound == m.start + m.count
        e == IF m.count # 0
             THEN (IF end = None THEN Some(lbound) ELSE Some(Min(end[1], lbound)))
             ELSE end
    IN  [status |-> "ok", value |-> Slice(m.data, m.start, e)]

\* _read_from_memory, (start, end) being the resolver's answer
_read_from_memory(m) ==
    IF m.ascii
    THEN LET end == find(m.data, m.start)
         IN  IF end < 0
             THEN [status |-> "EndOfStringNotFound", value |-> None]
             ELSE Bounded(m, Some(end))
    ELSE IF m.utf16
    THEN LET u == utf16_scan(m.data, m.start)
         IN  IF u.status = "ok"
             THEN Bounded(m, Some(u.end))
             ELSE [status |-> u.status, value |-> None]
    ELSE Bounded(m, m.end)

MemInit ==
    /\ mem \in [data : BufferPool,
                start : 0..(MaxBuf + 1),
                end : {None} \cup {Some(e) : e \in 0..MaxBuf},
                count : 0..MaxCount,
                utf16 : BOOLEAN,
                ascii : BOOLEAN]
    /\ memOut = [status |-> "new", value |-> None, oracle |-> 0]

\* 'if utf16 and ascii', and a variant that never objects
ends_conflict_unchecked(m) == FALSE

ends_conflict(m) == m.utf16 /\ m.ascii

\* __init__ with utf16 and ascii both set
MemReject ==
    /\ memOut.status = "new"
    /\ ends_conflict(mem)
    /\ memOut' = [memOut EXCEPT !.status = "ValueError"]
    /\ UNCHANGED mem

\* __init__ otherwise
MemConstruct ==
    /\ memOut.status = "new"
    /\ ~ends_conflict(mem)
    /\ memOut' = [memOut EXCEPT !.status = "ready"]
    /\ UNCHANGED mem

\* _read_from_memory returns; oracle counts the calls of offset_oracle
MemRead ==
    /\ memOut.status = "ready"
    /\ _read_from_memory(mem).status = "ok"
    /\ memOut' = [status |-> "ok",
                  value |-> _read_from_memory(mem).value,
                  oracle |-> memOut.oracle + 1]
    /\ UNCHANGED mem

\* _read_from_memory raises
MemRaise ==
    /\ memOut.status = "ready"
    /\ _read_from_memory(mem).status # "ok"
    /\ memOut' = [status |-> _read_from_memory(mem).status,
                  value |-> None,
                  oracle |-> memOut.oracle + 1]
    /\ UNCHANGED mem

MemIdle ==
    /\ mem = None
    /\ memOut = None

(***************************************************************************)
(* PathPattern on its own: one specification, one candidate path.  how is  *)
(* the way of construction: "wildcard" is PathPattern(pp), "regex" is      *)
(* PathPattern(pp, regex=True), "compiled" is PathPattern(re.compile(pp)). *)
(***************************************************************************)
MaxSpecLen == 3
MaxPathLen == 3
SpecAlphabet == {"a", "/", "*", "?"}
RegexAlphabet == {"a", "/", ".", "*"}
PathAlphabet == {"a", "b", "/"}

SpecsFor(how) ==
    IF how = "wildcard" THEN SeqsUpTo(SpecAlphabet, MaxSpecLen)
    ELSE IF how = "regex" THEN SeqsUpTo(RegexAlphabet, MaxSpecLen)
    ELSE {pp \in SeqsUpTo(RegexAlphabet, MaxSpecLen) : re_compile(pp) # None}

PatInit ==
    /\ \E how \in {"wildcard", "regex", "compiled"} :
       \E pp \in SpecsFor(how) :
       \E path \in SeqsUpTo(PathAlphabet, MaxPathLen) :
           pat = [how |-> how, pp |-> pp, path |-> path, status |-> "new",
                  self |-> None, reach |-> FALSE, check |-> FALSE]

\* __init__ returns
PatConstruct ==
    /\ pat.status = "new"
    /\ pat.how = "regex" => re_compile(pat.pp) # None
    /\ pat' = [pat EXCEPT
                  !.status = "built",
                  !.self = Some(IF pat.how = "wildcard" THEN PathPattern(pat.pp)
                                ELSE IF pat.how = "regex"
                                    THEN PathPatternRegex(pat.pp)
                                ELSE PathPatternCompiled(re_compile(pat.pp)[1]))]

\* __init__ raises: re.compile rejects the specification
PatConstructRaise ==
    /\ pat.status = "new"
    /\ pat.how = "regex"
    /\ re_compile(pat.pp) = None
    /\ pat' = [pat EXCEPT !.status = "re.error"]

\* reach and check return
PatProbe ==
    /\ pat.status = "built"
    /\ ~reach_raises(pat.self[1])
    /\ pat' = [pat EXCEPT !.status = "probed",
                          !.reach = reach(pat.self[1], pat.path),
                          !.check = check(pat.self[1], pat.path)]

\* reach raises; check returns
PatProbeRaise ==
    /\ pat.status = "built"
    /\ reach_raises(pat.self[1])
    /\ pat' = [pat EXCEPT !.status = "AttributeError",
                          !.check = check(pat.self[1], pat.path)]

PatIdle == pat = None

(***************************************************************************)
(* Specifications                                                          *)
(***************************************************************************)
\* one run of process
Init ==
    /\ ProcInit(ItemPool, SpecPool, {FALSE})
    /\ MemIdle
    /\ PatIdle

Next ==
    \/ (Begin /\ UNCHANGED <<memVars, patVars>>)
    \/ (UnpackSkip /\ UNCHANGED <<memVars, patVars>>)
    \/ (UnpackKeep /\ UNCHANGED <<memVars, patVars>>)
    \/ (UnpackFail /\ UNCHANGED <<memVars, patVars>>)
    \/ (UnpackEnd /\ UNCHANGED <<memVars, patVars>>)
    \/ (UnpackRaise /\ UNCHANGED <<memVars, patVars>>)
    \/ (EmitNextPattern /\ UNCHANGED <<memVars, patVars>>)
    \/ (EmitFinish /\ UNCHANGED <<memVars, patVars>>)
    \/ (EmitNoMatch /\ UNCHANGED <<memVars, patVars>>)
    \/ (EmitList /\ UNCHANGED <<memVars, patVars>>)
    \/ (EmitDuplicate /\ UNCHANGED <<memVars, patVars>>)
    \/ (EmitPayload /\ UNCHANGED <<memVars, patVars>>)

Spec == Init /\ [][Next]_vars

\* two runs of process on one input
InitTwo ==
    /\ ProcInit(ItemPool2, SpecPool, {FALSE})
    /\ MemIdle
    /\ PatIdle

NextTwo ==
    \/ Next
    \/ (Again /\ UNCHANGED <<memVars, patVars>>)

SpecTwo == InitTwo /\ [][NextTwo]_vars

\* one run of process of a unit made with or without the regex switch
InitSwitch ==
    /\ ProcInit(ItemPool2, SwitchPool, BOOLEAN)
    /\ MemIdle
    /\ PatIdle

SpecSwitch == InitSwitch /\ [][Next]_vars

\* the memory reader
InitMem ==
    /\ ProcIdle
    /\ MemInit
    /\ PatIdle

NextMem ==
    \/ (MemReject /\ UNCHANGED <<procVars, patVars>>)
    \/ (MemConstruct /\ UNCHANGED <<procVars, patVars>>)
    \/ (MemRead /\ UNCHANGED <<procVars, patVars>>)
    \/ (MemRaise /\ UNCHANGED <<procVars, patVars>>)

SpecMem == InitMem /\ [][NextMem]_vars

\* one pattern, one path
InitPat ==
    /\ ProcIdle
    /\ MemIdle
    /\ PatInit

NextPat ==
    \/ (PatConstruct /\ UNCHANGED <<procVars, memVars>>)
    \/ (PatConstructRaise /\ UNCHANGED <<procVars, memVars>>)
    \/ (PatProbe /\ UNCHANGED <<procVars, memVars>>)
    \/ (PatProbeRaise /\ UNCHANGED <<procVars, memVars>>)

SpecPat == InitPat /\ [][NextPat]_vars

(***************************************************************************)
(* Claims about process                                                    *)
(***************************************************************************)
\* the payload an item materializes to, if its producer returns
HasContent(n) == items[n].data.kind = "bytes" \/ items[n].data.ok
Content(n) ==
    IF items[n].data.kind = "bytes" THEN items[n].data.val ELSE items[n].data.ret

\* the declared patterns that fully match a path
Matching(path) == {n \in DOMAIN patterns : check(patterns[n], path)}

C1_Case ==
    /\ ~list
    /\ ~join
    /\ patterns = MakePatterns(<<StarTxt, Star>>)
    /\ Len(items) = 1
    /\ items[1].path = XTxt

\* C1, as stated: in non-list mode an item matched by several patterns is
\* emitted once per matching pattern; for patterns ["*.txt", "*"] and the
\* single item "x.txt", process emits exactly two payloads labelled "x.txt".
C1_OncePerPattern ==
    (pc = "done" /\ C1_Case) =>
        /\ Len(out) = 2
        /\ \A e \in DOMAIN out : out[e].path = XTxt

\* C1, amended: in non-list mode no item is emitted twice in one call, and
\* an emitted item is emitted under the first declared pattern that matches
\* it, the ledger being shared by all patterns; for patterns ["*.txt", "*"]
\* and the single item "x.txt", process emits exactly one payload, labelled
\* "x.txt".
C1_OncePerItem ==
    ~list =>
        /\ \A e1, e2 \in DOMAIN out : out[e1].item = out[e2].item => e1 = e2
        /\ \A e \in DOMAIN out :
               \A n \in Matching(items[out[e].item].path) : out[e].pat <= n
        /\ (pc = "done" /\ C1_Case) =>
               /\ Len(out) = 1
               /\ out[1].path = XTxt
               /\ out[1].pat = 1

C1_Witness == pc = "done" /\ C1_Case /\ Len(out) = 1 /\ pi = 3

TwoSamePath ==
    /\ ~list
    /\ Len(items) = 2
    /\ items[1].path = items[2].path
    /\ HasContent(1)
    /\ HasContent(2)
    /\ Cardinality(Matching(items[1].path)) = 1

\* C2: non-list mode, one matching pattern, two items with the same path and
\* identical content: exactly one payload is emitted for the path (the first
\* item's) and no duplicate-path warning is reported.
C2_PureDuplicate ==
    (pc = "done" /\ TwoSamePath /\ Content(1) = Content(2)) =>
        /\ Len(out) = 1
        /\ out[1].item = 1
        /\ out[1].path = Label(items[1].path)
        /\ out[1].data = Content(1)
        /\ warns = <<>>

C2_Witness ==
    /\ pc = "done"
    /\ TwoSamePath
    /\ Content(1) = Content(2)
    /\ Len(out) = 1
    /\ results = <<1, 2>>

\* C3, as stated: non-list mode, one matching pattern, two items with the
\* same path but differing content: both payloads are emitted with that path
\* and exactly one duplicate-path warning is reported.
C3_Conflict ==
    (pc = "done" /\ TwoSamePath /\ Content(1) # Content(2)) =>
        /\ Len(out) = 2
        /\ out[1].path = Label(items[1].path)
        /\ out[2].path = Label(items[1].path)
        /\ out[1].data = Content(1)
        /\ out[2].data = Content(2)
        /\ warns = <<items[1].path>>

\* C4: if emission e1 precedes e2, then e1's pattern is declared before
\* e2's, or they come from the same pattern and e1's item was yielded by
\* unpack before e2's.
C4_Order ==
    \A e1, e2 \in DOMAIN out :
        e1 < e2 =>
            \/ out[e1].pat < out[e2].pat
            \/ (out[e1].pat = out[e2].pat /\ out[e1].item < out[e2].item)

\* two emissions of one pattern, and a later pattern emitting an earlier item
C4_Witness ==
    /\ pc = "done"
    /\ \E e1, e2 \in DOMAIN out : e1 < e2 /\ out[e1].pat = out[e2].pat
    /\ \E e1, e2 \in DOMAIN out : e1 < e2 /\ out[e1].item > out[e2].item

RunOver == pc \in {"done", "raised"}

\* the byte strings a list-mode run yielded, and the encoded labels of the
\* payloads a non-list run yielded
ListedPaths(o) == {o[e].data : e \in DOMAIN o}
LabelledPaths(o) == {encode(o[e].path) : e \in DOMAIN o}

C6_ReachSound ==
    (pat.status = "probed" /\ pat.how = "wildcard" /\ pat.check) => pat.reach

(***************************************************************************)
(* Claims about _read_from_memory                                          *)
(***************************************************************************)
ReadOver == memOut.status \in {"ok", "EndOfStringNotFound", "IndexError"}

\* offsets e >= start holding a zero byte
ZeroAt == {e \in mem.start..(Len(mem.data) - 1) : mem.data[e + 1] = 0}

\* offsets e = start + 2k with e + 1 inside the buffer and zero at e, e + 1
ZeroPairAt ==
    {e \in mem.start..(Len(mem.data) - 2) :
        /\ (e - mem.start) % 2 = 0
        /\ mem.data[e + 1] = 0
        /\ mem.data[e + 2] = 0}

Least(S) == CHOOSE e \in S : \A f \in S : e <= f

\* C8, as stated: with ascii set and no zero byte at an index >= start, or
\* with utf16 set and no aligned zero pair, _read_from_memory raises
\* EndOfStringNotFound and no other error.
C8_TerminatorNotFound ==
    (/\ ReadOver
     /\ \/ (mem.ascii /\ ZeroAt = {})
        \/ (mem.utf16 /\ ZeroPairAt = {}))
    => memOut.status = "EndOfStringNotFound"

\* C9: ascii without count, a zero byte at an index >= start exists: the
\* result is buffer[start:e] for the smallest such index e, and holds no
\* zero byte.
C9_AsciiSlice ==
    (ReadOver /\ mem.ascii /\ mem.count = 0 /\ ZeroAt # {}) =>
        /\ memOut.status = "ok"
        /\ memOut.value = SubSeq(mem.data, mem.start + 1, Least(ZeroAt))
        /\ 0 \notin Range(memOut.value)

\* AB\0CD at offset 0 gives AB
C9_Witness ==
    /\ mem.ascii
    /\ mem.count = 0
    /\ mem.data = ExAscii
    /\ mem.start = 0
    /\ memOut.status = "ok"
    /\ memOut.value = <<65, 66>>

\* C10: utf16 without count, an aligned zero pair exists: the result is
\* buffer[start:e] for the smallest e = start + 2k with zeros at e and
\* e + 1, whatever zero pairs lie at odd distance before it, and its length
\* is even.
C10_Utf16Slice ==
    (ReadOver /\ mem.utf16 /\ mem.count = 0 /\ ZeroPairAt # {}) =>
        /\ memOut.status = "ok"
        /\ memOut.value = SubSeq(mem.data, mem.start + 1, Least(ZeroPairAt))
        /\ Len(memOut.value) % 2 = 0

\* A\0B\0\0\0 at offset 0 gives A\0B\0
C10_Witness ==
    /\ mem.utf16
    /\ mem.count = 0
    /\ mem.data = ExUtf16
    /\ mem.start = 0
    /\ memOut.status = "ok"
    /\ memOut.value = <<65, 0, 66, 0>>

\* buffer[start:e] with e >= 0
Cut(e) ==
    IF Min(e, Len(mem.data)) <= mem.start THEN <<>>
    ELSE SubSeq(mem.data, mem.start + 1, Min(e, Len(mem.data)))

\* the end the terminator search gives; defined when the read returned
TermEnd == IF mem.ascii THEN Least(ZeroAt) ELSE Least(ZeroPairAt)

\* C11, as stated: when count > 0 the effective end is min(terminator end,
\* start + count), or start + count alone when no terminator flag is set, so
\* the slice has at most count bytes; count = 0 imposes no bound.
C11_CountBound ==
    memOut.status = "ok" =>
        /\ (mem.count > 0 /\ (mem.ascii \/ mem.utf16)) =>
               memOut.value = Cut(Min(TermEnd, mem.start + mem.count))
        /\ (mem.count > 0 /\ ~mem.ascii /\ ~mem.utf16) =>
               memOut.value = Cut(mem.start + mem.count)
        /\ mem.count > 0 => Len(memOut.value) <= mem.count
        /\ (mem.count = 0 /\ (mem.ascii \/ mem.utf16)) =>
               memOut.value = Cut(TermEnd)

\* C11, amended: when count > 0 the effective end is min(terminator end,
\* start + count) with ascii or utf16 set; with no terminator flag it is
\* min(resolver end, start + count), which is start + count alone only when
\* the resolver gave no end.  The slice has at most count bytes, and
\* count = 0 imposes no bound.
C11_CountBoundWithResolver ==
    memOut.status = "ok" =>
        /\ (mem.count > 0 /\ (mem.ascii \/ mem.utf16)) =>
               memOut.value = Cut(Min(TermEnd, mem.start + mem.count))
        /\ (mem.count > 0 /\ ~mem.ascii /\ ~mem.utf16 /\ mem.end = None) =>
               memOut.value = Cut(mem.start + mem.count)
        /\ (mem.count > 0 /\ ~mem.ascii /\ ~mem.utf16 /\ mem.end # None) =>
               memOut.value = Cut(Min(mem.end[1], mem.start + mem.count))
        /\ mem.count > 0 => Len(memOut.value) <= mem.count
        /\ (mem.count = 0 /\ (mem.ascii \/ mem.utf16)) =>
               memOut.value = Cut(TermEnd)

\* ABCDEF, offset 1, count 2, no flags gives BC
C11_Witness ==
    /\ ~mem.ascii
    /\ ~mem.utf16
    /\ mem.data = ExCount
    /\ mem.start = 1
    /\ mem.count = 2
    /\ mem.end = None
    /\ memOut.status = "ok"
    /\ memOut.value = <<66, 67>>

\* C13: with ascii and utf16 both set construction is rejected with the
\* configuration error before the offset resolver is called or a byte is
\* read; every other flag combination constructs.
C13_RejectBoth ==
    memOut.status # "new" =>
        /\ (mem.ascii /\ mem.utf16) <=> memOut.status = "ValueError"
        /\ memOut.status = "ValueError" =>
               (memOut.oracle = 0 /\ memOut.value = None)

C13_Witness == memOut.status = "ValueError" /\ mem.ascii /\ mem.utf16

\* C16, as stated: when the resolver returns an end, the slice never extends
\* past it, for every flag combination.
C16_ResolverEndBounds ==
    (memOut.status = "ok" /\ mem.end # None /\ memOut.value # <<>>) =>
        mem.start + Len(memOut.value) <= mem.end[1]

\* C16, amended: when the resolver returns an end and neither ascii nor
\* utf16 is set, the slice never extends past it; with ascii or utf16 set
\* the terminator search replaces the resolver's end, and the slice is the
\* one the terminator and count alone give.
C16_ResolverEndBoundsUnflagged ==
    (memOut.status = "ok" /\ mem.end # None) =>
        /\ (~mem.ascii /\ ~mem.utf16 /\ memOut.value # <<>>) =>
               mem.start + Len(memOut.value) <= mem.end[1]
        /\ (mem.ascii \/ mem.utf16) =>
               memOut.value =
                   Cut(IF mem.count > 0
                       THEN Min(TermEnd, mem.start + mem.count)
                       ELSE TermEnd)

\* the resolver's end cuts the region short of the buffer's end
C16_Witness ==
    /\ ~mem.ascii
    /\ ~mem.utf16
    /\ mem.count = 0
    /\ mem.end # None
    /\ memOut.status = "ok"
    /\ memOut.value # <<>>
    /\ mem.start + Len(memOut.value) = mem.end[1]
    /\ mem.end[1] < Len(mem.data)

(***************************************************************************)
(* Further claims about process                                            *)
(***************************************************************************)
\* C14: two runs of process on the same producer output with the same
\* configuration end the same way with the same emissions in the same order
\* and the same warnings: the second run is not affected by the ledger or
\* the collected items of the first.
C14_Deterministic ==
    (RunOver /\ prev # None /\ prev[1].list = list) =>
        /\ pc = prev[1].pc
        /\ out = prev[1].out
        /\ warns = prev[1].warns

\* a second non-list run that emitted what the first one emitted, although
\* the first one's ledger held every pair of it
C14_Witness ==
    /\ pc = "done"
    /\ prev # None
    /\ prev[1].list = list
    /\ ~list
    /\ Len(out) >= 1
    /\ out = prev[1].out

\* C15: a deferred producer is invoked only for an item whose path some
\* configured pattern fully matches and only when list mode is off; in list
\* mode no object's data field is touched at all.
C15_InvokedOnlyIfWanted ==
    /\ \A n \in DOMAIN calls :
           calls[n] > 0 => (~list /\ Matching(items[n].path) # {})
    /\ list => objs = [n \in DOMAIN items |-> items[n].data]

\* of two deferred items the wanted one was invoked, the other one never
C15_Witness ==
    /\ pc = "done"
    /\ Len(items) = 2
    /\ callable(items[1].data)
    /\ callable(items[2].data)
    /\ Matching(items[1].path) # {}
    /\ Matching(items[2].path) = {}
    /\ calls = <<1, 0>>

\* the item path and checksum an emission stands for
PairOf(e) == <<items[out[e].item].path, adler32(out[e].data)>>

\* C17: in non-list mode no two emissions of one pattern have the same
\* (path, checksum) pair.
C17_NoPairTwice ==
    ~list =>
        \A e1, e2 \in DOMAIN out :
            (e1 # e2 /\ out[e1].pat = out[e2].pat) => PairOf(e1) # PairOf(e2)

\* one pattern met the same pair twice, in payloads that differ, and
\* emitted it once
C17_Witness ==
    /\ pc = "done"
    /\ ~list
    /\ Len(patterns) = 1
    /\ results = <<1, 2>>
    /\ items[1].path = items[2].path
    /\ Content(1) # Content(2)
    /\ adler32(Content(1)) = adler32(Content(2))
    /\ Len(out) = 1

\* C19: nothing is emitted before unpack is exhausted and, in non-list mode,
\* every wanted payload has been materialized; a call that ended with a
\* failure of unpack or of a producer has emitted nothing.
C19_EmitAfterCollect ==
    /\ pc \in {"start", "unpack", "raised"} => out = <<>>
    /\ out # <<>> =>
           /\ k > Len(items)
           /\ results = SelectSeq([n \in DOMAIN items |-> n],
                                  LAMBDA n : _check_path(items[n].path))
           /\ ~list => \A n \in Range(results) : ~callable(objs[n])

\* a producer failed after an earlier wanted item had been collected
C19_Witness ==
    /\ pc = "raised"
    /\ ~unpackErr
    /\ results # <<>>
    /\ out = <<>>

\* the emissions made so far under item path q
EmittedUnder(q) == {e \in DOMAIN out : items[out[e].item].path = q}

\* C20: in non-list mode the ledger maps each path exactly to the checksums
\* of the payloads emitted so far under that item path and has no entry for
\* a path with no emission; in list mode the ledger stays empty.
C20_LedgerIsEmitted ==
    IF list
    THEN paths = EmptyLedger
    ELSE paths = [q \in {items[out[e].item].path : e \in DOMAIN out} |->
                     {adler32(out[e].data) : e \in EmittedUnder(q)}]

\* a path with two checksums beside a path with one
C20_Witness ==
    /\ ~list
    /\ \E q \in DOMAIN paths : Cardinality(paths[q]) = 2
    /\ Len(out) = 2
    /\ pc = "done"

(***************************************************************************)
(* Further claims about PathPattern                                        *)
(***************************************************************************)
\* the stops of the wildcard specification at hand
StopsOf == Range(StopsFrom(pat.pp, 1))

\* C18, as stated: reach returns true for every candidate path whenever the
\* pattern is a raw regular expression, built from a precompiled regex
\* object or from a specification string with regex=True; for a wildcard
\* pattern with stops it returns true iff the path equals or
\* wildcard-matches one of the stops, and without stops it returns true.
C18_ReachOfRegex ==
    pat.status \in {"probed", "AttributeError"} =>
        /\ pat.how \in {"regex", "compiled"} =>
               (pat.status = "probed" /\ pat.reach)
        /\ (pat.how = "wildcard" /\ StopsOf # {}) =>
               (pat.reach <=>
                   \E stop \in StopsOf :
                       pat.path = stop \/ fnmatch(pat.path, stop))
        /\ (pat.how = "wildcard" /\ StopsOf = {}) => pat.reach

(***************************************************************************)
(* Claims about the regex switch                                           *)
(***************************************************************************)
\* the specifications all compile as regular expressions
AllCompile == \A m \in DOMAIN specs : re_compile(pathspec(specs[m])) # None

\* item n's path fully matches some specification read as a regex
ReadAsRegex(n) ==
    \E m \in DOMAIN specs :
        fullmatch(re_compile(pathspec(specs[m]))[1], items[n].path)

\* C12, as stated: with regex set every path specification is read as a raw
\* regular expression: an item is wanted, and its path emitted, iff its path
\* fully matches a specification read as a regex.
C12_RegexSwitch ==
    (regex /\ pc = "done" /\ AllCompile) =>
        \A n \in DOMAIN items :
            /\ n \in Range(results) <=> ReadAsRegex(n)
            /\ (\E e \in DOMAIN out : items[out[e].item].path = items[n].path)
                   <=> ReadAsRegex(n)

====
